---- MODULE Spec2Model ----
(***************************************************************************)
(* dealer-check (src/app.js): a single-page application that tells whether *)
(* a Brazilian municipality can take one more dealer.  The model keeps the *)
(* application state object, the stored configuration document, the       *)
(* pending asynchronous continuations (population lookups, postal-code     *)
(* lookups, coordinate lookups, the city-list loader) and what the page    *)
(* shows (result card, map series, toast).                                 *)
(*                                                                         *)
(* Strings are sequences of characters; a character is a one-character     *)
(* string, and a letter with a diacritic is written as the letter followed *)
(* by its mark ("a~" for a-tilde, "e'" for e-acute, "c," for c-cedilla).   *)
(* JavaScript numbers are records [k, v]: k says whether the value is a    *)
(* finite number, NaN, +Infinity, -Infinity, null or undefined.            *)
(***************************************************************************)
EXTENDS Integers, Sequences, FiniteSets, TLC

(* ------------------------------------------------------------------ *)
(* JavaScript values                                                   *)
(* ------------------------------------------------------------------ *)
Num(n) == [k |-> "num", v |-> n]
NaN == [k |-> "nan", v |-> 0]
PosInf == [k |-> "inf", v |-> 0]
NegInf == [k |-> "ninf", v |-> 0]
Null == [k |-> "null", v |-> 0]
Undefined == [k |-> "undefined", v |-> 0]

IsNum(x) == x.k = "num"

\* ToNumber of a value used as an operand of "/": null is 0, undefined is NaN.
ToNumber(x) ==
    CASE x.k = "null" -> Num(0)
      [] x.k = "undefined" -> NaN
      [] OTHER -> x

\* Truthiness of a number-like value: undefined, null, NaN and 0 are falsy.
Truthy(x) ==
    CASE x.k = "num" -> x.v # 0
      [] x.k \in {"inf", "ninf"} -> TRUE
      [] OTHER -> FALSE

\* floor of the quotient of two integers, for either sign of the divisor.
FloorDiv(p, d) == IF d > 0 THEN p \div d ELSE (0 - p) \div (0 - d)

\* Math.ceil(a / b) in place of Math.floor(a / b).
DivFloor_Ceil(a0, b0) ==
    LET a == ToNumber(a0)
        b == ToNumber(b0)
    IN  CASE a.k = "nan" \/ b.k = "nan" -> NaN
          [] b.k \in {"inf", "ninf"} -> IF a.k = "num" THEN Num(0) ELSE NaN
          [] a.k = "inf" -> IF b.v >= 0 THEN PosInf ELSE NegInf
          [] a.k = "ninf" -> IF b.v >= 0 THEN NegInf ELSE PosInf
          [] b.v = 0 -> IF a.v > 0 THEN PosInf ELSE IF a.v < 0 THEN NegInf ELSE NaN
          [] OTHER -> Num(FloorDiv(a.v + b.v - 1, b.v))

\* Math.floor(a / b) for a finite or NaN, b of any kind.
DivFloor(a0, b0) ==
    LET a == ToNumber(a0)
        b == ToNumber(b0)
    IN  CASE a.k = "nan" \/ b.k = "nan" -> NaN
          [] b.k \in {"inf", "ninf"} -> IF a.k = "num" THEN Num(0) ELSE NaN
          [] a.k = "inf" -> IF b.v >= 0 THEN PosInf ELSE NegInf
          [] a.k = "ninf" -> IF b.v >= 0 THEN NegInf ELSE PosInf
          [] b.v = 0 -> IF a.v > 0 THEN PosInf ELSE IF a.v < 0 THEN NegInf ELSE NaN
          [] OTHER -> Num(FloorDiv(a.v, b.v))

\* a < b on numbers: false as soon as one side is NaN.
JsLess(a, b) ==
    CASE a.k = "nan" \/ b.k = "nan" -> FALSE
      [] a.k = "ninf" -> b.k # "ninf"
      [] a.k = "inf" -> FALSE
      [] b.k = "inf" -> TRUE
      [] b.k = "ninf" -> FALSE
      [] OTHER -> a.v < b.v

\* JSON.parse(JSON.stringify(x)) of a number-like value: NaN and the
\* infinities are written as null; an undefined property is left out.
JsonNumber(x) ==
    IF x.k \in {"nan", "inf", "ninf"} THEN Null ELSE x

(* ------------------------------------------------------------------ *)
(* Strings                                                             *)
(* ------------------------------------------------------------------ *)
\* The value of each decimal digit.
DigitValue ==
    "0" :> 0 @@ "1" :> 1 @@ "2" :> 2 @@ "3" :> 3 @@ "4" :> 4 @@
    "5" :> 5 @@ "6" :> 6 @@ "7" :> 7 @@ "8" :> 8 @@ "9" :> 9
IsDigit(c) == c \in DOMAIN DigitValue
DigitVal(c) == DigitValue[c]
IsSpace(c) == c = " "

UpperCase == <<"A", "B", "C", "D", "E", "F", "G", "H", "I", "J", "K", "L", "M",
               "N", "O", "P", "Q", "R", "S", "T", "U", "V", "W", "X", "Y", "Z">>
LowerCase == <<"a", "b", "c", "d", "e", "f", "g", "h", "i", "j", "k", "l", "m",
               "n", "o", "p", "q", "r", "s", "t", "u", "v", "w", "x", "y", "z">>
\* The letters with a diacritic that occur in the city names, and the letter
\* each decomposes to once its combining mark is removed.
Accented == <<"a'", "a^", "a~", "c,", "e'", "i'", "o'">>
BaseLetter == <<"a", "a", "a", "c", "e", "i", "o">>

LowerOf == [c \in {UpperCase[i] : i \in 1..Len(UpperCase)} |->
               LowerCase[CHOOSE i \in 1..Len(UpperCase) : UpperCase[i] = c]]
BaseOf == [c \in {Accented[i] : i \in 1..Len(Accented)} |->
              BaseLetter[CHOOSE i \in 1..Len(Accented) : Accented[i] = c]]

ToLowerChar(c) == IF c \in DOMAIN LowerOf THEN LowerOf[c] ELSE c

StripMark(c) == IF c \in DOMAIN BaseOf THEN BaseOf[c] ELSE c

ToLowerCase(s) == [i \in 1..Len(s) |-> ToLowerChar(s[i])]

\* s.toLowerCase().normalize("NFD").replace(/[\u0300-\u036f]/g, ""): lower case, then every
\* combining mark of the decomposed form is dropped
Normalize(s) == [i \in 1..Len(s) |-> StripMark(ToLowerChar(s[i]))]

RECURSIVE TrimLeft(_)
TrimLeft(s) == IF s # <<>> /\ IsSpace(Head(s)) THEN TrimLeft(Tail(s)) ELSE s
RECURSIVE TrimRight(_)
TrimRight(s) ==
    IF s # <<>> /\ IsSpace(s[Len(s)]) THEN TrimRight(SubSeq(s, 1, Len(s) - 1)) ELSE s
Trim(s) == TrimRight(TrimLeft(s))

\* s.replace(/\D/g, '')
OnlyDigits(s) == SelectSeq(s, IsDigit)

\* s.split('-')[0]
RECURSIVE BeforeDash(_)
BeforeDash(s) ==
    IF s = <<>> \/ Head(s) = "-" THEN <<>> ELSE <<Head(s)>> \o BeforeDash(Tail(s))

\* s.includes(q)
Includes(s, q) ==
    \E i \in 0..(Len(s) - Len(q)) : SubSeq(s, i + 1, i + Len(q)) = q

RECURSIVE DigitRun(_)
DigitRun(s) ==
    IF s # <<>> /\ IsDigit(Head(s)) THEN <<Head(s)>> \o DigitRun(Tail(s)) ELSE <<>>

RECURSIVE DecimalValue(_)
DecimalValue(ds) ==
    IF ds = <<>> THEN 0
    ELSE 10 * DecimalValue(SubSeq(ds, 1, Len(ds) - 1)) + DigitVal(ds[Len(ds)])

\* parseInt(s) with no radix, on strings that carry no "0x" prefix: leading
\* white space is skipped, one sign is read, then digits up to the first
\* character that is not one; no digit at all gives NaN.
ParseInt(s) ==
    LET t == TrimLeft(s)
        neg == t # <<>> /\ Head(t) = "-"
        u == IF t # <<>> /\ Head(t) \in {"-", "+"} THEN Tail(t) ELSE t
        ds == DigitRun(u)
    IN  IF ds = <<>> THEN NaN
        ELSE Num(IF neg THEN 0 - DecimalValue(ds) ELSE DecimalValue(ds))

\* parseFloat(s) on the coordinate strings of the model, which carry no
\* fraction and no exponent: the same scan as parseInt.
ParseFloat(s) == ParseInt(s)

\* A string is truthy when it is not empty.
NonEmpty(s) == s # <<>>

(* ------------------------------------------------------------------ *)
(* Bounds and the values the environment can supply                    *)
(* ------------------------------------------------------------------ *)
\* Number of user and administrator gestures (a search, a click on an
\* administrator button, a page reload) in one run.
MaxOps == 2

FALLBACK_POPULATION == 50000
DEFAULT_DENSITY_RULE == 5000
DEFAULT_WARNING_DAYS == 30
maxRetries == 3
CEP_LENGTH == 8

Str_Natal == <<"N", "a", "t", "a", "l">>
Str_natal == <<"n", "a", "t", "a", "l">>
Str_Belem == <<"B", "e", "l", "e'", "m">>
Str_RN == <<"R", "N">>
Str_PA == <<"P", "A">>

City_Natal == [name |-> Str_Natal, uf |-> Str_RN, id |-> 2408102]
City_Belem == [name |-> Str_Belem, uf |-> Str_PA, id |-> 1501402]

\* What cities.json and the IBGE municipality service answer when they
\* answer: each city already mapped to {name, uf, id}.
LocalCities == <<City_Belem, City_Natal>>
ApiCities == <<City_Natal, City_Belem>>

fallbackCities == <<
    [name |-> <<"S", "a~", "o", " ", "P", "a", "u", "l", "o">>, uf |-> <<"S", "P">>, id |-> 3550308],
    [name |-> <<"R", "i", "o", " ", "d", "e", " ", "J", "a", "n", "e", "i", "r", "o">>, uf |-> <<"R", "J">>, id |-> 3304557],
    [name |-> <<"B", "r", "a", "s", "i'", "l", "i", "a">>, uf |-> <<"D", "F">>, id |-> 5300108],
    [name |-> <<"S", "a", "l", "v", "a", "d", "o", "r">>, uf |-> <<"B", "A">>, id |-> 2927408],
    [name |-> <<"F", "o", "r", "t", "a", "l", "e", "z", "a">>, uf |-> <<"C", "E">>, id |-> 2304400],
    [name |-> <<"B", "e", "l", "o", " ", "H", "o", "r", "i", "z", "o", "n", "t", "e">>, uf |-> <<"M", "G">>, id |-> 3106200],
    [name |-> <<"M", "a", "n", "a", "u", "s">>, uf |-> <<"A", "M">>, id |-> 1302603],
    [name |-> <<"C", "u", "r", "i", "t", "i", "b", "a">>, uf |-> <<"P", "R">>, id |-> 4106902],
    [name |-> <<"R", "e", "c", "i", "f", "e">>, uf |-> <<"P", "E">>, id |-> 2611606],
    [name |-> <<"G", "o", "i", "a^", "n", "i", "a">>, uf |-> <<"G", "O">>, id |-> 5208707],
    [name |-> <<"B", "e", "l", "e'", "m">>, uf |-> <<"P", "A">>, id |-> 1501402],
    [name |-> <<"P", "o", "r", "t", "o", " ", "A", "l", "e", "g", "r", "e">>, uf |-> <<"R", "S">>, id |-> 4314902],
    [name |-> <<"G", "u", "a", "r", "u", "l", "h", "o", "s">>, uf |-> <<"S", "P">>, id |-> 3518800],
    [name |-> <<"C", "a", "m", "p", "i", "n", "a", "s">>, uf |-> <<"S", "P">>, id |-> 3509502],
    [name |-> <<"S", "a~", "o", " ", "L", "u", "i'", "s">>, uf |-> <<"M", "A">>, id |-> 2111300],
    [name |-> <<"S", "a~", "o", " ", "G", "o", "n", "c,", "a", "l", "o">>, uf |-> <<"R", "J">>, id |-> 3304904],
    [name |-> <<"M", "a", "c", "e", "i", "o'">>, uf |-> <<"A", "L">>, id |-> 2704302],
    [name |-> <<"D", "u", "q", "u", "e", " ", "d", "e", " ", "C", "a", "x", "i", "a", "s">>, uf |-> <<"R", "J">>, id |-> 3301702],
    [name |-> <<"C", "a", "m", "p", "o", " ", "G", "r", "a", "n", "d", "e">>, uf |-> <<"M", "S">>, id |-> 5002704],
    [name |-> <<"N", "a", "t", "a", "l">>, uf |-> <<"R", "N">>, id |-> 2408102],
    [name |-> <<"T", "e", "r", "e", "s", "i", "n", "a">>, uf |-> <<"P", "I">>, id |-> 2211001],
    [name |-> <<"S", "a~", "o", " ", "B", "e", "r", "n", "a", "r", "d", "o", " ", "d", "o", " ", "C", "a", "m", "p", "o">>, uf |-> <<"S", "P">>, id |-> 3548708],
    [name |-> <<"J", "o", "a~", "o", " ", "P", "e", "s", "s", "o", "a">>, uf |-> <<"P", "B">>, id |-> 2507507],
    [name |-> <<"N", "o", "v", "a", " ", "I", "g", "u", "a", "c,", "u">>, uf |-> <<"R", "J">>, id |-> 3303500],
    [name |-> <<"S", "a", "n", "t", "o", " ", "A", "n", "d", "r", "e'">>, uf |-> <<"S", "P">>, id |-> 3547809],
    [name |-> <<"O", "s", "a", "s", "c", "o">>, uf |-> <<"S", "P">>, id |-> 3534401],
    [name |-> <<"S", "a~", "o", " ", "J", "o", "s", "e'", " ", "d", "o", "s", " ", "C", "a", "m", "p", "o", "s">>, uf |-> <<"S", "P">>, id |-> 3549904],
    [name |-> <<"J", "a", "b", "o", "a", "t", "a~", "o", " ", "d", "o", "s", " ", "G", "u", "a", "r", "a", "r", "a", "p", "e", "s">>, uf |-> <<"P", "E">>, id |-> 2607901],
    [name |-> <<"R", "i", "b", "e", "i", "r", "a~", "o", " ", "P", "r", "e", "t", "o">>, uf |-> <<"S", "P">>, id |-> 3543402],
    [name |-> <<"U", "b", "e", "r", "l", "a^", "n", "d", "i", "a">>, uf |-> <<"M", "G">>, id |-> 3170206],
    [name |-> <<"S", "o", "r", "o", "c", "a", "b", "a">>, uf |-> <<"S", "P">>, id |-> 3552205],
    [name |-> <<"C", "o", "n", "t", "a", "g", "e", "m">>, uf |-> <<"M", "G">>, id |-> 3118601],
    [name |-> <<"A", "r", "a", "c", "a", "j", "u">>, uf |-> <<"S", "E">>, id |-> 2800308],
    [name |-> <<"F", "e", "i", "r", "a", " ", "d", "e", " ", "S", "a", "n", "t", "a", "n", "a">>, uf |-> <<"B", "A">>, id |-> 2910800],
    [name |-> <<"C", "u", "i", "a", "b", "a'">>, uf |-> <<"M", "T">>, id |-> 5103403],
    [name |-> <<"J", "o", "i", "n", "v", "i", "l", "l", "e">>, uf |-> <<"S", "C">>, id |-> 4209102],
    [name |-> <<"F", "l", "o", "r", "i", "a", "n", "o'", "p", "o", "l", "i", "s">>, uf |-> <<"S", "C">>, id |-> 4205407],
    [name |-> <<"L", "o", "n", "d", "r", "i", "n", "a">>, uf |-> <<"P", "R">>, id |-> 4113700],
    [name |-> <<"J", "u", "i", "z", " ", "d", "e", " ", "F", "o", "r", "a">>, uf |-> <<"M", "G">>, id |-> 3136702],
    [name |-> <<"N", "i", "t", "e", "r", "o'", "i">>, uf |-> <<"R", "J">>, id |-> 3303302]
>>

\* Text typed in the search box.
SearchInputs ==
    { <<>>,
      <<" ">>,
      <<"5", "9", "0", "0", "0", "-", "0", "0">>,
      <<"-", "5", "9">>,
      <<"5", "9", "0", "0", "0", "-", "0", "0", "0">>,
      Str_natal,
      <<"b", "e", "l", "e", "m", " ", "-", " ", "P", "A">> }

\* Answers of the postal-code service.
CepResponses ==
    { [kind |-> "throw", localidade |-> <<>>, uf |-> <<>>, ibge |-> 0],
      [kind |-> "erro", localidade |-> <<>>, uf |-> <<>>, ibge |-> 0],
      [kind |-> "ok", localidade |-> Str_Natal, uf |-> Str_RN, ibge |-> 2408102] }

\* Answers of the population service: the request fails, the answer has no
\* data series, the series is an empty object, or it holds one value.
PopulationResponses ==
    { [kind |-> "throw", value |-> <<>>],
      [kind |-> "noSerie", value |-> <<>>],
      [kind |-> "emptySerie", value |-> <<>>],
      [kind |-> "serie", value |-> <<".", ".", ".">>],
      [kind |-> "serie", value |-> <<"3", "3", "0", "0", "0">>] }

\* Answers of the coordinate service.
GeoResponses ==
    { [kind |-> "throw", lat |-> <<>>, lon |-> <<>>],
      [kind |-> "empty", lat |-> <<>>, lon |-> <<>>],
      [kind |-> "ok", lat |-> <<"-", "5">>, lon |-> <<"-", "3", "5">>] }

\* Values of the administrator's form fields.
DensityInputs == { <<>>, <<"7", "0", "0", "0">> }
OccupiedInputs ==
    { [city |-> Str_Natal, uf |-> Str_RN, dealers |-> <<"6">>],
      [city |-> Str_Natal, uf |-> Str_RN, dealers |-> <<"x">>],
      [city |-> Str_natal, uf |-> Str_RN, dealers |-> <<"6">>],
      [city |-> <<>>, uf |-> Str_RN, dealers |-> <<"6">>],
      [city |-> Str_Natal, uf |-> <<>>, dealers |-> <<"6">>],
      [city |-> Str_Natal, uf |-> Str_RN, dealers |-> <<>>] }

\* parseInt and parseFloat tabulated once over the strings the model can
\* hand them (form fields, population values, coordinates).
NumericStrings ==
    DensityInputs
        \cup {form.dealers : form \in OccupiedInputs}
        \cup {resp.value : resp \in PopulationResponses}
        \cup {resp.lat : resp \in GeoResponses} \cup {resp.lon : resp \in GeoResponses}
ParseIntOf == [s \in NumericStrings |-> ParseInt(s)]
ParseFloatOf == [s \in NumericStrings |-> ParseFloat(s)]

(* ------------------------------------------------------------------ *)
(* State                                                               *)
(* ------------------------------------------------------------------ *)
VARIABLES
    config,            \* state.config; occupiedCities holds object identities
    objects,           \* the record objects: identity -> {city, uf, dealers, lat, lon}
    storage,           \* localStorage['dealerCheckConfigV2'], parsed; <<>> when absent
    selectedLocation,  \* state.selectedLocation; <<>> when null
    result,            \* what showResult was last given; <<>> when nothing is shown
    allCities,         \* state.allCities
    mapChart,          \* state.mapChart: <<>> when null, else <<[data, markers]>>
    loader,            \* where loadAllCities stands
    queries,           \* searches waiting for a postal-code or population answer
    calls,             \* updateMapMarkers calls waiting for a coordinate answer
    nOps,              \* gestures made so far
    lastIssued,        \* the location of the search issued last; <<>> when none
    last,              \* the step taken last: its toast, whether it ran the engine
    evaluation         \* the exclusivity-aware engine's call: <<>> in this page, which has none

vars == <<config, objects, storage, selectedLocation, result, allCities, mapChart,
          loader, queries, calls, nOps, lastIssued, last, evaluation>>

Some(x) == <<x>>
None == <<>>

\* What the last step left behind: the toast it showed ("none" when it
\* showed none) and whether it called checkAvailability.
Step(toast, engine) == [toast |-> toast, engine |-> engine]

(* ------------------------------------------------------------------ *)
(* Configuration document                                              *)
(* ------------------------------------------------------------------ *)
\* The occupiedCities array with each identity replaced by its record.
Records(cfg, objs) ==
    [i \in 1..Len(cfg.occupiedCities) |-> objs[cfg.occupiedCities[i]]]

\* state.config as a plain document.
Document(cfg, objs) ==
    [densityRule |-> cfg.densityRule,
     occupiedCities |-> Records(cfg, objs),
     warningDays |-> cfg.warningDays]

\* JSON.parse(JSON.stringify(record)).
JsonRecord(o) ==
    [city |-> o.city, uf |-> o.uf, dealers |-> o.dealers,
     lat |-> JsonNumber(o.lat), lon |-> JsonNumber(o.lon)]

\* JSON.parse(JSON.stringify(state.config)).
JsonDocument(cfg, objs) ==
    [densityRule |-> JsonNumber(cfg.densityRule),
     occupiedCities |-> [i \in 1..Len(cfg.occupiedCities) |->
                            JsonRecord(objs[cfg.occupiedCities[i]])],
     warningDays |-> cfg.warningDays]

\* The identities that can still be reached: the array's and those held by
\* a suspended updateMapMarkers call.
Live(cfg, cs) ==
    {cfg.occupiedCities[i] : i \in 1..Len(cfg.occupiedCities)}
        \cup {cs[i].item : i \in 1..Len(cs)}

Collect(objs, cfg, cs) == [id \in DOMAIN objs \cap Live(cfg, cs) |-> objs[id]]

FreshId(objs) == CHOOSE id \in 1..(Cardinality(DOMAIN objs) + 1) : id \notin DOMAIN objs

DefaultConfig ==
    [densityRule |-> Num(DEFAULT_DENSITY_RULE),
     occupiedCities |-> <<>>,
     warningDays |-> DEFAULT_WARNING_DAYS]

(* ------------------------------------------------------------------ *)
(* Map                                                                 *)
(* ------------------------------------------------------------------ *)
allKeys == <<
    <<"b", "r", "-", "a", "c">>, <<"b", "r", "-", "a", "l">>, <<"b", "r", "-", "a", "p">>,
    <<"b", "r", "-", "a", "m">>, <<"b", "r", "-", "b", "a">>, <<"b", "r", "-", "c", "e">>,
    <<"b", "r", "-", "d", "f">>, <<"b", "r", "-", "e", "s">>, <<"b", "r", "-", "g", "o">>,
    <<"b", "r", "-", "m", "a">>, <<"b", "r", "-", "m", "t">>, <<"b", "r", "-", "m", "s">>,
    <<"b", "r", "-", "m", "g">>, <<"b", "r", "-", "p", "a">>, <<"b", "r", "-", "p", "b">>,
    <<"b", "r", "-", "p", "r">>, <<"b", "r", "-", "p", "e">>, <<"b", "r", "-", "p", "i">>,
    <<"b", "r", "-", "r", "j">>, <<"b", "r", "-", "r", "n">>, <<"b", "r", "-", "r", "s">>,
    <<"b", "r", "-", "r", "o">>, <<"b", "r", "-", "r", "r">>, <<"b", "r", "-", "s", "c">>,
    <<"b", "r", "-", "s", "p">>, <<"b", "r", "-", "s", "e">>, <<"b", "r", "-", "t", "o">> >>

\* `br-${uf.toLowerCase()}`
MapKey(uf) == <<"b", "r", "-">> \o ToLowerCase(uf)

\* parseInt(item.dealers) || 0
DealersOrZero(o) ==
    LET n == ParseIntOf[o.dealers] IN IF Truthy(n) THEN n.v ELSE 0

RECURSIVE SumFor_LastWins(_, _)
\* counts[key] = dealers in place of counts[key] += dealers.
SumFor_LastWins(recs, key) ==
    IF recs = <<>> THEN 0
    ELSE IF MapKey(recs[Len(recs)].uf) = key THEN DealersOrZero(recs[Len(recs)])
         ELSE SumFor_LastWins(SubSeq(recs, 1, Len(recs) - 1), key)

RECURSIVE SumFor(_, _)
\* counts[key] after the forEach: the dealers of the records with that key.
SumFor(recs, key) ==
    IF recs = <<>> THEN 0
    ELSE (IF MapKey(Head(recs).uf) = key THEN DealersOrZero(Head(recs)) ELSE 0)
            + SumFor(Tail(recs), key)

getMapData(cfg, objs) ==
    [i \in 1..Len(allKeys) |->
        [hc_key |-> allKeys[i], value |-> SumFor(Records(cfg, objs), allKeys[i])]]

Marker(o) ==
    [name |-> o.city, lat |-> o.lat, lon |-> o.lon,
     dealers |-> ParseIntOf[o.dealers], z |-> ParseIntOf[o.dealers]]

\* The loop of updateMapMarkers from array position i on, up to the first
\* item whose coordinates have to be fetched (the call suspends there) or to
\* the end of the array (the call is done).
RECURSIVE RunMarkers(_, _, _, _)
RunMarkers(ids, objs, i, markers) ==
    IF i > Len(ids)
    THEN [done |-> TRUE, idx |-> i, item |-> 0, markers |-> markers]
    ELSE LET o == objs[ids[i]]
         IN  IF ~Truthy(o.lat) \/ ~Truthy(o.lon)
             THEN [done |-> FALSE, idx |-> i, item |-> ids[i], markers |-> markers]
             ELSE RunMarkers(ids, objs, i + 1, Append(markers, Marker(o)))

\* updateMapMarkers() called on chart, with cs the calls already suspended:
\* the chart and the suspended calls it leaves.
updateMapMarkers(chart, cfg, objs, cs) ==
    IF chart = None THEN [chart |-> chart, calls |-> cs]
    ELSE LET run == RunMarkers(cfg.occupiedCities, objs, 1, <<>>)
         IN  IF run.done
             THEN [chart |-> Some([chart[1] EXCEPT !.markers = run.markers]), calls |-> cs]
             ELSE [chart |-> chart,
                   calls |-> Append(cs, [idx |-> run.idx, item |-> run.item,
                                         markers |-> run.markers])]

\* updateMapData()
updateMapData(chart, cfg, objs, cs) ==
    IF chart = None THEN [chart |-> chart, calls |-> cs]
    ELSE updateMapMarkers(Some([chart[1] EXCEPT !.data = getMapData(cfg, objs)]),
                          cfg, objs, cs)

(* ------------------------------------------------------------------ *)
(* Business logic                                                      *)
(* ------------------------------------------------------------------ *)
\* The lookup on names without case and accents, as searchByName compares.
FindOccupied_Normalized(recs, city, uf) ==
    LET hits == {i \in 1..Len(recs) :
                    Normalize(recs[i].city) = Normalize(city) /\ recs[i].uf = uf}
    IN  IF hits = {} THEN None
        ELSE Some(recs[CHOOSE i \in hits : \A j \in hits : i <= j])

\* state.config.occupiedCities.find(item => item.city === city && item.uf === uf):
\* the first matching record, None when there is none.
FindOccupied(recs, city, uf) ==
    LET hits == {i \in 1..Len(recs) : recs[i].city = city /\ recs[i].uf = uf}
    IN  IF hits = {} THEN None
        ELSE Some(recs[CHOOSE i \in hits : \A j \in hits : i <= j])

\* currentDealers <= maxDealers in place of currentDealers < maxDealers.
IsAvailable_AtMost(currentDealers, maxDealers) ==
    ~JsLess(maxDealers, currentDealers)

\* maxDealers < currentDealers in place of currentDealers < maxDealers.
IsAvailable_Reversed(currentDealers, maxDealers) == JsLess(maxDealers, currentDealers)

IsAvailable(currentDealers, maxDealers) == JsLess(currentDealers, maxDealers)

\* checkAvailability(): the arguments it hands to showResult.
checkAvailability(sel, cfg, objs) ==
    LET occupiedData == FindOccupied(Records(cfg, objs), sel.city, sel.uf)
        currentDealers ==
            IF occupiedData # None THEN ParseIntOf[occupiedData[1].dealers] ELSE Num(0)
        maxDealers == DivFloor(sel.population, cfg.densityRule)
    IN  [isAvailable |-> IsAvailable(currentDealers, maxDealers),
         city |-> sel.city, uf |-> sel.uf, population |-> sel.population,
         currentDealers |-> currentDealers, maxDealers |-> maxDealers]

\* getCityPopulation(): what it resolves to for each answer of the service.
getCityPopulation(resp) ==
    CASE resp.kind = "throw" -> Num(FALLBACK_POPULATION)
      [] resp.kind = "noSerie" -> Num(FALLBACK_POPULATION)
      [] resp.kind = "emptySerie" -> NaN
      [] OTHER -> ParseIntOf[resp.value]

\* The cities of state.allCities whose normalized name includes the
\* normalized query, in list order (filter(...).slice(0, 10)).
RECURSIVE Take(_, _)
Take(s, n) == IF n = 0 \/ s = <<>> THEN <<>> ELSE <<Head(s)>> \o Take(Tail(s), n - 1)

NameMatches(cities, name) ==
    LET q == Normalize(name)
        Hit(c) == Includes(Normalize(c.name), q)
    IN  Take(SelectSeq(cities, Hit), 10)

\* NameMatches tabulated once over the city lists and the names the model
\* can hand it.
CityLists == {<<>>, LocalCities, ApiCities, fallbackCities}
NameParts == {Trim(BeforeDash(Trim(input))) : input \in SearchInputs}
MatchTable == [cities \in CityLists, name \in NameParts |-> NameMatches(cities, name)]

(* ------------------------------------------------------------------ *)
(* Start of the page                                                   *)
(* ------------------------------------------------------------------ *)
BootLoader == [pc |-> "boot", attempt |-> 0]
DoneLoader == [pc |-> "done", attempt |-> 0]

\* The script has been evaluated and init() has not run yet: the state
\* literal, on a browser that has never stored a configuration.
Init ==
    /\ config = DefaultConfig
    /\ objects = <<>>
    /\ storage = None
    /\ selectedLocation = None
    /\ result = None
    /\ allCities = <<>>
    /\ mapChart = None
    /\ loader = BootLoader
    /\ queries = <<>>
    /\ calls = <<>>
    /\ nOps = 0
    /\ lastIssued = None
    /\ last = Step("none", FALSE)
    /\ evaluation = None

Started == loader.pc # "boot"

\* loadConfig(): the configuration and its record objects after it.
loadConfig(saved, cfg, objs) ==
    IF saved # None
    THEN [config |-> [densityRule |-> saved[1].densityRule,
                      occupiedCities |-> [i \in 1..Len(saved[1].occupiedCities) |-> i],
                      warningDays |-> saved[1].warningDays],
          objects |-> saved[1].occupiedCities]
    ELSE [config |-> cfg, objects |-> objs]

\* init() up to its first suspension: loadConfig, initMap (which draws the
\* state series and calls updateMapMarkers), then loadAllCities, which
\* suspends on the request for cities.json.
init ==
    /\ UNCHANGED evaluation
    /\ loader.pc = "boot"
    /\ \E loaded \in {loadConfig(storage, config, objects)} :
       \E chart \in {Some([data |-> getMapData(loaded.config, loaded.objects),
                           markers |-> <<>>])} :
       \E drawn \in {updateMapMarkers(chart, loaded.config, loaded.objects, <<>>)} :
           /\ config' = loaded.config
           /\ objects' = loaded.objects
           /\ mapChart' = drawn.chart
           /\ calls' = drawn.calls
    /\ loader' = [loader EXCEPT !.pc = "local"]
    /\ last' = Step("none", FALSE)
    /\ UNCHANGED <<storage, selectedLocation, result, allCities, queries, nOps, lastIssued>>

\* The user reloads the page: every continuation is dropped, the state is
\* the literal again, and only the stored document survives.
Reload ==
    /\ UNCHANGED evaluation
    /\ Started
    /\ nOps < MaxOps
    /\ nOps' = nOps + 1
    /\ config' = DefaultConfig
    /\ objects' = <<>>
    /\ selectedLocation' = None
    /\ result' = None
    /\ allCities' = <<>>
    /\ mapChart' = None
    /\ loader' = BootLoader
    /\ queries' = <<>>
    /\ calls' = <<>>
    /\ lastIssued' = None
    /\ last' = Step("none", FALSE)
    /\ UNCHANGED storage

(* ------------------------------------------------------------------ *)
(* loadAllCities                                                       *)
(* ------------------------------------------------------------------ *)
\* The while condition as attempt <= maxRetries.
RetryAgain_OneMore(attempt) == attempt <= maxRetries

\* while (attempt < maxRetries)
RetryAgain(attempt) == attempt < maxRetries

\* The while test of the retry loop with `attempt` failures behind it:
\* one more request to the municipality service, or useFallbackCities().
RetryOrFallback(attempt, cities) ==
    IF RetryAgain(attempt)
    THEN [loader |-> [pc |-> "api", attempt |-> attempt], allCities |-> cities,
          toast |-> "none"]
    ELSE [loader |-> DoneLoader, allCities |-> fallbackCities,
          toast |-> "Modo Offline: Carregadas principais cidades."]

\* The request for cities.json settles: ok says whether the file was
\* fetched, parsed and mapped without an exception.
loadAllCities_local(ok) ==
    /\ UNCHANGED evaluation
    /\ loader.pc = "local"
    /\ IF ok
       THEN /\ allCities' = LocalCities
            /\ loader' = DoneLoader
            /\ last' = Step("Base de dados completa carregada.", FALSE)
       ELSE \E next \in {RetryOrFallback(0, allCities)} :
            /\ allCities' = next.allCities
            /\ loader' = next.loader
            /\ last' = Step(next.toast, FALSE)
    /\ UNCHANGED <<config, objects, storage, selectedLocation, result, mapChart,
                   queries, calls, nOps, lastIssued>>

\* A request to the municipality service settles; a failure counts one
\* attempt and starts the one-second timer.
loadAllCities_api(ok) ==
    /\ UNCHANGED evaluation
    /\ loader.pc = "api"
    /\ IF ok
       THEN /\ allCities' = ApiCities
            /\ loader' = DoneLoader
            /\ last' = Step("Base de dados carregada via API.", FALSE)
       ELSE /\ allCities' = allCities
            /\ loader' = [pc |-> "wait", attempt |-> loader.attempt + 1]
            /\ last' = Step("none", FALSE)
    /\ UNCHANGED <<config, objects, storage, selectedLocation, result, mapChart,
                   queries, calls, nOps, lastIssued>>

\* The one-second timer fires and the while test is made again.
loadAllCities_timer ==
    /\ UNCHANGED evaluation
    /\ loader.pc = "wait"
    /\ \E next \in {RetryOrFallback(loader.attempt, allCities)} :
            /\ allCities' = next.allCities
            /\ loader' = next.loader
            /\ last' = Step(next.toast, FALSE)
    /\ UNCHANGED <<config, objects, storage, selectedLocation, result, mapChart,
                   queries, calls, nOps, lastIssued>>

(* ------------------------------------------------------------------ *)
(* Search                                                              *)
(* ------------------------------------------------------------------ *)
\* processLocationSelection(city, uf, ibgeId) up to its suspension on the
\* population request.
Lookup(city, uf, ibgeId) == [stage |-> "pop", city |-> city, uf |-> uf, ibgeId |-> ibgeId]
CepLookup == [stage |-> "cep", city |-> <<>>, uf |-> <<>>, ibgeId |-> 0]

\* handleSearch() with `input` in the search box.
handleSearch(input) ==
    /\ UNCHANGED evaluation
    /\ Started
    /\ nOps < MaxOps
    /\ nOps' = nOps + 1
    /\ LET query == Trim(input)
           cleanQuery == OnlyDigits(query)
           namePart == Trim(BeforeDash(query))
           matches == MatchTable[allCities, namePart]
           Quiet(toast) ==
               /\ last' = Step(toast, FALSE)
               /\ UNCHANGED <<queries, lastIssued>>
       IN  IF ~NonEmpty(query) THEN Quiet("none")
           ELSE IF Len(cleanQuery) = CEP_LENGTH
           THEN \* searchByCep: suspended on the postal-code request
                /\ queries' = Append(queries, CepLookup)
                /\ lastIssued' = lastIssued
                /\ last' = Step("none", FALSE)
           ELSE \* searchByName
                IF allCities = <<>> THEN Quiet("Aguarde, carregando cidades...")
                ELSE IF matches = <<>> THEN Quiet("Cidade nao encontrada.")
                ELSE /\ queries' = Append(queries,
                            Lookup(matches[1].name, matches[1].uf, matches[1].id))
                     /\ lastIssued' = Some([city |-> matches[1].name, uf |-> matches[1].uf,
                                            ibgeId |-> matches[1].id])
                     /\ last' = Step("none", FALSE)
    /\ UNCHANGED <<config, objects, storage, selectedLocation, result, allCities,
                   mapChart, loader, calls>>

Without(s, i) == SubSeq(s, 1, i - 1) \o SubSeq(s, i + 1, Len(s))

\* The postal-code request of the i-th pending search settles.
searchByCep(i, resp) ==
    /\ UNCHANGED evaluation
    /\ i \in 1..Len(queries)
    /\ queries[i].stage = "cep"
    /\ CASE resp.kind = "throw" ->
              /\ queries' = Without(queries, i)
              /\ lastIssued' = lastIssued
              /\ last' = Step("Erro ao buscar CEP.", FALSE)
         [] resp.kind = "erro" ->
              /\ queries' = Without(queries, i)
              /\ lastIssued' = lastIssued
              /\ last' = Step("CEP nao encontrado.", FALSE)
         [] OTHER ->
              /\ queries' = [queries EXCEPT ![i] = Lookup(resp.localidade, resp.uf, resp.ibge)]
              /\ lastIssued' = Some([city |-> resp.localidade, uf |-> resp.uf,
                                     ibgeId |-> resp.ibge])
              /\ last' = Step("none", FALSE)
    /\ UNCHANGED <<config, objects, storage, selectedLocation, result, allCities,
                   mapChart, loader, calls, nOps>>

\* The population request of the i-th pending search settles, and
\* processLocationSelection runs to its end.
processLocationSelection(i, resp) ==
    /\ UNCHANGED evaluation
    /\ i \in 1..Len(queries)
    /\ queries[i].stage = "pop"
    /\ \E sel \in {[city |-> queries[i].city, uf |-> queries[i].uf,
                     ibgeId |-> queries[i].ibgeId,
                     population |-> getCityPopulation(resp)]} :
           /\ selectedLocation' = Some(sel)
           /\ result' = Some(checkAvailability(sel, config, objects))
    /\ queries' = Without(queries, i)
    /\ last' = Step("none", TRUE)
    /\ UNCHANGED <<config, objects, storage, allCities, mapChart, loader, calls,
                   nOps, lastIssued>>

(* ------------------------------------------------------------------ *)
(* Administrator actions                                               *)
(* ------------------------------------------------------------------ *)
\* saveConfig() on the configuration cfg: the stored document is rewritten,
\* the map is redrawn and a new updateMapMarkers call is started.
saveConfig(cfg, objs) ==
    \E drawn \in {updateMapData(mapChart, cfg, objs, calls)} :
        /\ storage' = Some(JsonDocument(cfg, objs))
        /\ mapChart' = drawn.chart
        /\ calls' = drawn.calls
        /\ config' = cfg
        /\ objects' = Collect(objs, cfg, drawn.calls)

\* The click handler of the save-density button.
saveDensity(value) ==
    /\ UNCHANGED evaluation
    /\ Started
    /\ nOps < MaxOps
    /\ nOps' = nOps + 1
    /\ saveConfig([config EXCEPT !.densityRule = ParseIntOf[value]], objects)
    /\ last' = Step("Configuracoes salvas!", FALSE)
    /\ UNCHANGED <<selectedLocation, result, allCities, loader, queries, lastIssued>>

\* The positions of the records with the given city and uf.
Positions(cfg, objs, city, uf) ==
    {i \in 1..Len(cfg.occupiedCities) :
        /\ objs[cfg.occupiedCities[i]].city = city
        /\ objs[cfg.occupiedCities[i]].uf = uf}

\* The add handler without its findIndex: the record is always pushed.
AddRecord_AlwaysPush(cfg, objs, city, uf, dealers) ==
    LET id == FreshId(objs)
    IN  [config |-> [cfg EXCEPT !.occupiedCities = Append(@, id)],
         objects |-> [o \in DOMAIN objs \cup {id} |->
                         IF o = id
                         THEN [city |-> city, uf |-> uf, dealers |-> dealers,
                               lat |-> Undefined, lon |-> Undefined]
                         ELSE objs[o]]]

\* The body of the add handler when the three fields are filled in: the
\* record found by findIndex gets the new dealers, or a record is pushed.
AddRecord(cfg, objs, city, uf, dealers) ==
    LET hits == Positions(cfg, objs, city, uf)
        existingIndex == CHOOSE i \in hits : \A j \in hits : i <= j
        id == FreshId(objs)
    IN  IF hits # {}
        THEN [config |-> cfg,
              objects |-> [objs EXCEPT ![cfg.occupiedCities[existingIndex]].dealers = dealers]]
        ELSE [config |-> [cfg EXCEPT !.occupiedCities = Append(@, id)],
              objects |-> [o \in DOMAIN objs \cup {id} |->
                              IF o = id
                              THEN [city |-> city, uf |-> uf, dealers |-> dealers,
                                    lat |-> Undefined, lon |-> Undefined]
                              ELSE objs[o]]]

\* if (city && uf && dealers)
FormFilled(city, uf, dealers) == NonEmpty(city) /\ NonEmpty(uf) /\ NonEmpty(dealers)

\* The click handler of the add-occupied button.
addOccupied(city, uf, dealers) ==
    /\ UNCHANGED evaluation
    /\ Started
    /\ nOps < MaxOps
    /\ nOps' = nOps + 1
    /\ IF FormFilled(city, uf, dealers)
       THEN /\ LET added == AddRecord(config, objects, city, uf, dealers)
               IN  saveConfig(added.config, added.objects)
            /\ last' = Step("Configuracoes salvas!", FALSE)
       ELSE /\ last' = Step("Preencha todos os campos", FALSE)
            /\ UNCHANGED <<config, objects, storage, mapChart, calls>>
    /\ UNCHANGED <<selectedLocation, result, allCities, loader, queries, lastIssued>>

\* window.removeOccupied(index), index being that of a button of the list
\* renderOccupiedList drew (the list is redrawn after every change).
removeOccupied(index) ==
    /\ UNCHANGED evaluation
    /\ Started
    /\ index \in 0..(Len(config.occupiedCities) - 1)
    /\ nOps < MaxOps
    /\ nOps' = nOps + 1
    /\ saveConfig([config EXCEPT !.occupiedCities = Without(@, index + 1)], objects)
    /\ last' = Step("Configuracoes salvas!", FALSE)
    /\ UNCHANGED <<selectedLocation, result, allCities, loader, queries, lastIssued>>

(* ------------------------------------------------------------------ *)
(* updateMapMarkers, resumed                                           *)
(* ------------------------------------------------------------------ *)
\* One suspended call c, resumed with the answer resp: the record objects,
\* and the loop's state at its next suspension or at its end.
Resumed(c, resp, cfg, objs) ==
    LET objs1 == IF resp.kind = "ok"
                 THEN [objs EXCEPT ![c.item].lat = ParseFloatOf[resp.lat],
                                   ![c.item].lon = ParseFloatOf[resp.lon]]
                 ELSE objs
        o == objs1[c.item]
        markers1 == IF resp.kind # "throw" /\ Truthy(o.lat) /\ Truthy(o.lon)
                    THEN Append(c.markers, Marker(o))
                    ELSE c.markers
    IN  [objects |-> objs1,
         run |-> RunMarkers(cfg.occupiedCities, objs1, c.idx + 1, markers1)]

\* The coordinate request of the i-th suspended call settles; the call
\* goes on over the array as it is now, up to its next request or its end,
\* where it hands its markers to the chart.
updateMapMarkers_resume(i, resp) ==
    /\ UNCHANGED evaluation
    /\ i \in 1..Len(calls)
    /\ \E r \in {Resumed(calls[i], resp, config, objects)} :
         \E cs \in {IF r.run.done
                    THEN Without(calls, i)
                    ELSE [calls EXCEPT ![i] = [idx |-> r.run.idx, item |-> r.run.item,
                                               markers |-> r.run.markers]]} :
            /\ calls' = cs
            /\ mapChart' = IF r.run.done
                           THEN Some([mapChart[1] EXCEPT !.markers = r.run.markers])
                           ELSE mapChart
            /\ objects' = Collect(r.objects, config, cs)
    /\ last' = Step("none", FALSE)
    /\ UNCHANGED <<config, storage, selectedLocation, result, allCities, loader,
                   queries, nOps, lastIssued>>

(* ------------------------------------------------------------------ *)
(* Specification                                                       *)
(* ------------------------------------------------------------------ *)
Next ==
    \/ init
    \/ Reload
    \/ \E ok \in BOOLEAN : loadAllCities_local(ok)
    \/ \E ok \in BOOLEAN : loadAllCities_api(ok)
    \/ loadAllCities_timer
    \/ \E input \in SearchInputs : handleSearch(input)
    \/ \E i \in 1..Len(queries), resp \in CepResponses : searchByCep(i, resp)
    \/ \E i \in 1..Len(queries), resp \in PopulationResponses :
            processLocationSelection(i, resp)
    \/ \E value \in DensityInputs : saveDensity(value)
    \/ \E form \in OccupiedInputs : addOccupied(form.city, form.uf, form.dealers)
    \/ \E index \in 0..(Len(config.occupiedCities) - 1) : removeOccupied(index)
    \/ \E i \in 1..Len(calls), resp \in GeoResponses : updateMapMarkers_resume(i, resp)

Spec == Init /\ [][Next]_vars

\* Every request the loader waits for settles and its timer fires: the
\* browser ends a request that gets no answer, and runs due timers.
FairSpec ==
    /\ Spec
    /\ WF_vars(init)
    /\ WF_vars(\E ok \in BOOLEAN : loadAllCities_local(ok))
    /\ WF_vars(\E ok \in BOOLEAN : loadAllCities_api(ok))
    /\ WF_vars(loadAllCities_timer)

(* ------------------------------------------------------------------ *)
(* The engine with exclusivity                                         *)
(*                                                                     *)
(* app.js has no exclusivity rule: checkAvailability reads city, uf and *)
(* dealers of a record and nothing else. The engine that takes such a  *)
(* rule belongs to the oldest variant of the page, which is not among  *)
(* the sources; it is written here from the specification's section    *)
(* 4.1, one definition per step, over plain integers and day numbers.  *)
(* ------------------------------------------------------------------ *)
\* Days, as day numbers; a rule's validUntil is <<>> or <<day>>.
Days == 1..3
ExclusivityRules == {[validUntil |-> None]} \cup {[validUntil |-> Some(d)] : d \in Days}

\* validUntil > today.
ExclusivityActive_Strict(rule, today) ==
    rule.validUntil = None \/ rule.validUntil[1] > today

\* Step 1: no validUntil, or validUntil >= today at day granularity.
ExclusivityActive(rule, today) ==
    rule.validUntil = None \/ rule.validUntil[1] >= today

\* Step 5: maxDealers as displayed, at least 1.
DisplayedMax(maxDealers) == IF maxDealers = 0 THEN 1 ELSE maxDealers

\* evaluate(population, currentDealers, densityRule, exclusivity?), with
\* the day it is called on; exclusivity is <<>> or <<rule>>.
evaluate(population, currentDealers, densityRule, exclusivity, today) ==
    IF /\ exclusivity # None
       /\ ExclusivityActive(exclusivity[1], today)
       /\ currentDealers > 0
    THEN [status |-> "unavailable", reason |-> "exclusive",
          maxDealers |-> None, remainingSlots |-> None]
    ELSE LET maxDealers == population \div densityRule
             remainingSlots == maxDealers - currentDealers
         IN  IF remainingSlots > 0
             THEN [status |-> "available", reason |-> "none",
                   maxDealers |-> Some(maxDealers),
                   remainingSlots |-> Some(remainingSlots)]
             ELSE [status |-> "unavailable", reason |-> "population threshold reached",
                   maxDealers |-> Some(DisplayedMax(maxDealers)),
                   remainingSlots |-> None]

\* The calls of the engine that are tried: the populations and dealer
\* counts of the specification's scenarios, with every kind of rule.
EvalPopulations == {0, 30000, 33000, 100000}
EvalDealers == {0, 3, 6, 15}
EvalDensities == {DEFAULT_DENSITY_RULE, 7000}
EvalCalls ==
    [population : EvalPopulations, currentDealers : EvalDealers,
     densityRule : EvalDensities,
     exclusivity : {None} \cup {Some(r) : r \in ExclusivityRules},
     today : Days, outcome : {None}]

\* A call of the engine is about to be made; the page is as Init has it.
EvalInit ==
    /\ config = DefaultConfig
    /\ objects = <<>>
    /\ storage = None
    /\ selectedLocation = None
    /\ result = None
    /\ allCities = <<>>
    /\ mapChart = None
    /\ loader = BootLoader
    /\ queries = <<>>
    /\ calls = <<>>
    /\ nOps = 0
    /\ lastIssued = None
    /\ last = Step("none", FALSE)
    /\ evaluation \in EvalCalls

\* The engine is called and returns.
evaluate_call ==
    /\ evaluation # None
    /\ evaluation.outcome = None
    /\ evaluation' = [evaluation EXCEPT !.outcome =
            Some(evaluate(evaluation.population, evaluation.currentDealers,
                          evaluation.densityRule, evaluation.exclusivity,
                          evaluation.today))]
    /\ UNCHANGED <<config, objects, storage, selectedLocation, result, allCities,
                   mapChart, loader, queries, calls, nOps, lastIssued, last>>

EvalNext == evaluate_call

EvalSpec == EvalInit /\ [][EvalNext]_vars

(* ------------------------------------------------------------------ *)
(* Properties                                                          *)
(* ------------------------------------------------------------------ *)
Shown == result[1]
Selected == selectedLocation[1]
Registry == Records(config, objects)

\* a >= b on numbers, as JavaScript compares them.
JsAtLeast(a, b) ==
    CASE a.k = "nan" \/ b.k = "nan" -> FALSE
      [] a.k = "inf" -> TRUE
      [] b.k = "ninf" -> TRUE
      [] a.k = "ninf" -> FALSE
      [] b.k = "inf" -> FALSE
      [] OTHER -> a.v >= b.v

\* C1: when checkAvailability has just run on a population > 0 with a
\* density rule > 0, the maxDealers it hands to showResult is the integer m
\* with m * densityRule <= population < (m + 1) * densityRule, and m >= 0.
C1_MaxDealersIsFloor ==
    (last.engine /\ result # None) =>
        LET p == Shown.population
            d == config.densityRule
            m == Shown.maxDealers
        IN  (IsNum(p) /\ p.v > 0 /\ IsNum(d) /\ d.v > 0) =>
                /\ IsNum(m)
                /\ m.v >= 0
                /\ m.v * d.v <= p.v
                /\ p.v < (m.v + 1) * d.v

\* checkAvailability has just run on a population that the density rule
\* does not divide.
C1_Witness ==
    /\ last.engine
    /\ result # None
    /\ IsNum(Shown.population) /\ Shown.population.v > 0
    /\ IsNum(config.densityRule) /\ config.densityRule.v > 0
    /\ IsNum(Shown.maxDealers)
    /\ Shown.maxDealers.v * config.densityRule.v < Shown.population.v

\* C2: a result whose currentDealers is greater than or equal to its
\* maxDealers is never shown as available.
C2_FullIsUnavailable ==
    result # None =>
        (JsAtLeast(Shown.currentDealers, Shown.maxDealers) => ~Shown.isAvailable)

\* A location with exactly as many dealers as it may have, shown unavailable.
C2_Witness ==
    /\ result # None
    /\ IsNum(Shown.currentDealers) /\ IsNum(Shown.maxDealers)
    /\ Shown.currentDealers.v = Shown.maxDealers.v
    /\ Shown.currentDealers.v > 0
    /\ ~Shown.isAvailable

\* maxDealers - currentDealers
RemainingSlots(r) ==
    IF r.maxDealers.k = "inf" THEN PosInf ELSE Num(r.maxDealers.v - r.currentDealers.v)

\* C3: a result whose currentDealers is below its maxDealers is shown as
\* available, and maxDealers - currentDealers is strictly positive.
C3_RoomIsAvailable ==
    result # None =>
        ((/\ IsNum(Shown.currentDealers)
          /\ \/ Shown.maxDealers.k = "inf"
             \/ IsNum(Shown.maxDealers) /\ Shown.currentDealers.v < Shown.maxDealers.v)
         => /\ Shown.isAvailable
            /\ \/ RemainingSlots(Shown).k = "inf"
               \/ RemainingSlots(Shown).v > 0)

\* A location with dealers registered and room left, shown available.
C3_Witness ==
    /\ result # None
    /\ Shown.isAvailable
    /\ IsNum(Shown.currentDealers) /\ Shown.currentDealers.v > 0
    /\ IsNum(Shown.maxDealers) /\ Shown.currentDealers.v < Shown.maxDealers.v

\* C4: the population getCityPopulation yields, which processLocationSelection
\* stores in selectedLocation and hands to checkAvailability, is a positive
\* integer (50000 whenever the lookup fails or carries no usable series).
C4_PopulationPositiveInteger ==
    /\ selectedLocation # None =>
            IsNum(Selected.population) /\ Selected.population.v > 0
    /\ last.engine => Shown.population = Selected.population

NoDuplicateKeys ==
    \A i, j \in 1..Len(Registry) :
        (Registry[i].city = Registry[j].city /\ Registry[i].uf = Registry[j].uf) => i = j

\* A step of the add handler on a filled form whose (city, uf) is already
\* registered keeps the number of records and every record but the found
\* one, which only gets the new dealers.
AddReplacesInPlace ==
    \A form \in OccupiedInputs :
        (/\ FormFilled(form.city, form.uf, form.dealers)
         /\ Positions(config, objects, form.city, form.uf) # {}
         /\ addOccupied(form.city, form.uf, form.dealers))
        => /\ Len(config'.occupiedCities) = Len(config.occupiedCities)
           /\ \A i \in 1..Len(config.occupiedCities) :
                Records(config', objects')[i] =
                    IF i \in Positions(config, objects, form.city, form.uf)
                    THEN [Registry[i] EXCEPT !.dealers = form.dealers]
                    ELSE Registry[i]

\* C5: from an empty registry on, add and remove never leave two records
\* with the same (city, uf), and adding a pair already present replaces the
\* dealers of its record in place.
C5_UniqueKeys == []NoDuplicateKeys /\ [][AddReplacesInPlace]_vars

\* The second of two gestures was an add for the one registered pair, whose
\* coordinates had arrived in between.
C5_Witness ==
    /\ nOps = 2
    /\ Len(Registry) = 1
    /\ Truthy(Registry[1].lat)
    /\ last.toast = "Configuracoes salvas!"
    /\ config.densityRule = Num(DEFAULT_DENSITY_RULE)

\* C6: once no lookup is pending, the selected location and the result
\* shown are those of the search whose population lookup was issued last.
C6_LastQueryWins ==
    (queries = <<>> /\ lastIssued # None) =>
        /\ selectedLocation # None
        /\ Selected.city = lastIssued[1].city
        /\ Selected.uf = lastIssued[1].uf
        /\ Selected.ibgeId = lastIssued[1].ibgeId
        /\ result # None
        /\ Shown.city = lastIssued[1].city
        /\ Shown.uf = lastIssued[1].uf

\* The loader's steps: a source that answers sets the list and ends the
\* loader; a failed service request counts an attempt and waits; the
\* hard-coded list is taken only by the timer after the last attempt.
LoaderStep ==
    \/ loader' = loader /\ allCities' = allCities
    \/ loader'.pc = "boot"
    \/ loader.pc = "boot" /\ loader' = [pc |-> "local", attempt |-> 0]
            /\ allCities' = allCities
    \/ loader.pc = "local" /\ loader' = DoneLoader /\ allCities' = LocalCities
    \/ loader.pc = "local" /\ loader' = [pc |-> "api", attempt |-> 0]
            /\ allCities' = allCities
    \/ loader.pc = "api" /\ loader' = DoneLoader /\ allCities' = ApiCities
    \/ loader.pc = "api"
            /\ loader' = [pc |-> "wait", attempt |-> loader.attempt + 1]
            /\ allCities' = allCities
    \/ loader.pc = "wait" /\ loader.attempt < maxRetries
            /\ loader' = [pc |-> "api", attempt |-> loader.attempt]
            /\ allCities' = allCities
    \/ loader.pc = "wait" /\ loader.attempt = maxRetries
            /\ loader' = DoneLoader /\ allCities' = fallbackCities

\* C7: loadAllCities tries cities.json, then the municipality service at
\* most maxRetries times with a wait after each failure, then takes the
\* hard-coded list; the first source that answers wins; and it terminates
\* (unless the page is reloaded under it).
C7_LoaderLadder ==
    /\ [](loader.pc = "api" => loader.attempt < maxRetries)
    /\ [](loader.pc = "wait" => loader.attempt \in 1..maxRetries)
    /\ [][LoaderStep]_vars
    /\ (loader.pc = "local") ~> (loader.pc \in {"done", "boot"})

\* The loader has ended on the hard-coded list.
C7_Witness == loader.pc = "done" /\ allCities = fallbackCities

EmptyQuery(input) == Trim(input) = <<>>

\* A query made of digits and hyphens only whose digits are not CEP_LENGTH
\* in number.
WrongLengthPostalCode(input) ==
    /\ OnlyDigits(Trim(input)) # <<>>
    /\ \A i \in 1..Len(Trim(input)) : IsDigit(Trim(input)[i]) \/ Trim(input)[i] = "-"
    /\ Len(OnlyDigits(Trim(input))) # CEP_LENGTH

\* The step left the selection, the result and the configuration alone,
\* did not run checkAvailability and started no lookup that will run it.
Rejected ==
    /\ ~last'.engine
    /\ UNCHANGED <<selectedLocation, result, config, objects, storage, queries>>

\* C8: an empty query, a postal code that has not eight digits and an add
\* with a missing city, uf or dealers are each rejected with a notification:
\* checkAvailability is not reached and the selection and the configuration
\* stay as they were.
C8_InvalidInputNotified ==
    [][/\ \A input \in SearchInputs :
            (handleSearch(input) /\ (EmptyQuery(input) \/ WrongLengthPostalCode(input)))
                => (Rejected /\ last'.toast # "none")
       /\ \A form \in OccupiedInputs :
            (addOccupied(form.city, form.uf, form.dealers)
                /\ (form.city = <<>> \/ form.uf = <<>> \/ form.dealers = <<>>))
                => (Rejected /\ last'.toast # "none")]_vars

Idle == loader.pc = "done" /\ queries = <<>> /\ calls = <<>>

\* C9: whenever nothing is pending, the stored document is the in-memory
\* configuration as JSON writes it, field by field, coordinates included.
C9_StoredIsConfig ==
    (Idle /\ storage # None) => storage[1] = JsonDocument(config, objects)

\* C10: the density rule is a positive number in every state.
C10_DensityPositive ==
    IsNum(config.densityRule) /\ config.densityRule.v > 0

\* The outcome of the engine's call and, for the same call, the outcome
\* the density rule alone gives.
Evaluated == evaluation # None /\ evaluation.outcome # None
Outcome == evaluation.outcome[1]
DensityHeadroom == (evaluation.population \div evaluation.densityRule) - evaluation.currentDealers

\* C11: with a rule for the location that is active (no validUntil, or
\* validUntil >= today) and currentDealers > 0 the engine answers
\* unavailable, whatever room the density rule leaves; with a rule and no
\* dealers it answers as the density rule alone does.
C11_ExclusivityBlocks ==
    (Evaluated /\ evaluation.exclusivity # None) =>
        LET rule == evaluation.exclusivity[1]
            active == rule.validUntil = None \/ rule.validUntil[1] >= evaluation.today
        IN  /\ (active /\ evaluation.currentDealers > 0) => Outcome.status = "unavailable"
            /\ evaluation.currentDealers = 0 =>
                    Outcome.status = IF DensityHeadroom > 0 THEN "available" ELSE "unavailable"

\* A rule that ends today has blocked a location with dealers and room left.
C11_Witness ==
    /\ Evaluated
    /\ evaluation.exclusivity # None
    /\ evaluation.exclusivity[1].validUntil = Some(evaluation.today)
    /\ evaluation.currentDealers > 0
    /\ DensityHeadroom > 0
    /\ Outcome.status = "unavailable"

\* The records of the registry with exactly the selected city and uf.
ExactMatches ==
    {i \in 1..Len(Registry) :
        Registry[i].city = Selected.city /\ Registry[i].uf = Selected.uf}

\* C12: when checkAvailability has just run, currentDealers is 0 if no
\* record has exactly the selected (city, uf), letter for letter; otherwise
\* exactly one record has it and currentDealers is parseInt of its dealers.
C12_ExactLookup ==
    (last.engine /\ result # None) =>
        IF ExactMatches = {}
        THEN Shown.currentDealers = Num(0)
        ELSE /\ Cardinality(ExactMatches) = 1
             /\ \A i \in ExactMatches : Shown.currentDealers = ParseInt(Registry[i].dealers)

\* checkAvailability has just run on a city registered under a spelling
\* that differs in case only, and found no dealers.
C12_Witness ==
    /\ last.engine
    /\ result # None
    /\ ExactMatches = {}
    /\ \E i \in 1..Len(Registry) :
            /\ Normalize(Registry[i].city) = Normalize(Selected.city)
            /\ Registry[i].uf = Selected.uf
            /\ ParseInt(Registry[i].dealers) # Num(0)
    /\ Shown.currentDealers = Num(0)

\* The dealers a record counts for: the number its dealers text starts
\* with, none when it starts with no number.
DealerCount(rec) ==
    LET n == ParseInt(rec.dealers) IN IF IsNum(n) THEN n.v ELSE 0

RECURSIVE SumOver(_, _)
\* The sum of f over the finite set S.
SumOver(S, f) ==
    IF S = {} THEN 0
    ELSE LET x == CHOOSE y \in S : TRUE IN f[x] + SumOver(S \ {x}, f)

\* The records of the registry that lie in the state of a key.
RecordsOf(key) ==
    {j \in 1..Len(Registry) : <<"b", "r", "-">> \o ToLowerCase(Registry[j].uf) = key}

StateKeys == {allKeys[i] : i \in 1..Len(allKeys)}
\* The 27 keys are 27 different keys.
KeysDistinct == Cardinality(StateKeys) = Len(allKeys)
MapData == mapChart[1].data

\* C13: the state series drawn on the map has exactly one entry for each
\* of the 27 state keys (the keys are distinct and entry i has key i); the
\* value of an entry is the sum of the dealer counts of the registry's
\* records of that state, 0 when it has none; and
\* the 27 values add up to the dealers of the whole registry when every
\* record's uf is one of the 27 codes.
C13_MapDataSumsDealers ==
    mapChart # None =>
        /\ KeysDistinct
        /\ Len(MapData) = Len(allKeys)
        /\ \A i \in 1..Len(MapData) :
                /\ MapData[i].hc_key = allKeys[i]
                /\ MapData[i].value =
                        SumOver(RecordsOf(MapData[i].hc_key),
                                [j \in 1..Len(Registry) |-> DealerCount(Registry[j])])
        /\ (\A j \in 1..Len(Registry) :
                <<"b", "r", "-">> \o ToLowerCase(Registry[j].uf) \in StateKeys)
            => SumOver(1..Len(MapData), [i \in 1..Len(MapData) |-> MapData[i].value])
               = SumOver(1..Len(Registry),
                         [j \in 1..Len(Registry) |-> DealerCount(Registry[j])])

\* Two records of one state, and the map shows that state with the sum of
\* their dealers.
C13_Witness ==
    /\ mapChart # None
    /\ \E i \in 1..Len(MapData) :
            /\ Cardinality(RecordsOf(MapData[i].hc_key)) = 2
            /\ \A j \in RecordsOf(MapData[i].hc_key) :
                    0 < DealerCount(Registry[j]) /\ DealerCount(Registry[j]) < MapData[i].value

Markers == mapChart[1].markers

\* C14: once no updateMapMarkers call is waiting for coordinates, every
\* marker on the map is the marker of a record of the current registry,
\* with that record's current dealers, whatever was added or removed
\* while a call was waiting.
C14_MarkersMatchRegistry ==
    (mapChart # None /\ calls = <<>>) =>
        \A m \in 1..Len(Markers) :
            \E j \in 1..Len(Registry) :
                /\ Registry[j].city = Markers[m].name
                /\ Registry[j].lat = Markers[m].lat
                /\ Registry[j].lon = Markers[m].lon
                /\ ParseInt(Registry[j].dealers) = Markers[m].dealers
====
